---- MODULE Spec2Model ----
(***************************************************************************)
(* A model of the typed invocation layer of icp-demo: the Service of       *)
(* src/src/agent.rs (identity context, trace flag, query/update invoker,   *)
(* method facade, event pagination, the envelopes it encodes and decodes), *)
(* the composite asset identifier derivation and the demo workflow of      *)
(* src/src/scenarios.rs, and the start-up of src/src/main.rs.              *)
(***************************************************************************)
EXTENDS Integers, Sequences, FiniteSets, TLC

(* -------- bounds of the model -------- *)

\* Number of call futures that may exist at the same time.
MaxCalls == 2

\* Longest byte string an asset identifier is built from (17 bytes: wider than u128).
MaxAssetBytes == 17

\* The most events the remote ledger records per kind and scope.
MaxEvents == 2

\* Most bytes of an arbitrary-precision integer that is put on the wire.
MaxNatBytes == 2

(* -------- state -------- *)

VARIABLES
    identity,   \* the Agent's signing identity (behind Service.agent)
    TRACE,      \* Service::TRACE
    borrows,    \* outstanding shared borrows of the RefCell<Agent>
    panicked,   \* the thread has panicked
    calls,      \* the futures of facade calls that have not completed
    returned,   \* the most recent call that returned to its caller
    lastSet,    \* history: the argument of the last set_identity that returned
    request,    \* catalog model: the last request handed to the transport
    previous,   \* catalog model: the request before it
    req,        \* asset model: the asset_id of the CreateAssetRequest
    createPc,   \* asset model: where create_asset stands
    created,    \* asset model: what create_asset returned
    earlier,    \* asset model: what create_asset returned for this request before
    log,        \* event model: the remote ledger's number of events per kind and scope
    counted,    \* event model: what the last count query returned
    got,        \* event model: what the last get query returned
    phase,      \* demo: where main is (init_service, Scenarios::init, dfinity_demo, ...)
    pc,         \* demo: the statement of dfinity_demo that runs next
    flight,     \* demo: the call dfinity_demo awaits, if any
    trusted,    \* demo: fetch_root_key has returned Ok
    dispatched, \* demo: number of calls handed to the transport so far
    lastSent,   \* demo: the last call handed to the transport
    shape,      \* transcoder: the shape the envelope was encoded for
    value,      \* transcoder: the value that was encoded
    wire,       \* transcoder: the bytes of the envelope as they arrive
    damage,     \* transcoder: what happened to the bytes on the way
    decoded     \* transcoder: what the call that decoded them returned

invokerVars == <<identity, TRACE, borrows, panicked, calls, returned, lastSet>>
catalogVars == <<request, previous>>
assetVars == <<req, createPc, created, earlier>>
eventVars == <<log, counted, got>>
demoVars == <<phase, pc, flight, trusted, dispatched, lastSent>>
codecVars == <<shape, value, wire, damage, decoded>>
exceptInvoker == <<catalogVars, assetVars, eventVars, demoVars, codecVars>>
exceptCatalog == <<invokerVars, assetVars, eventVars, demoVars, codecVars>>
exceptAsset == <<invokerVars, catalogVars, eventVars, demoVars, codecVars>>
exceptEvent == <<invokerVars, catalogVars, assetVars, demoVars, codecVars>>
exceptCodec == <<invokerVars, catalogVars, assetVars, eventVars, demoVars>>
\* The demo drives the Service: it changes identity, TRACE and borrows itself.
exceptDemo == <<calls, returned, catalogVars, assetVars, eventVars, codecVars>>
vars == <<identity, TRACE, borrows, panicked, calls, returned, lastSet,
          request, previous, req, createPc, created, earlier, log, counted, got,
          phase, pc, flight, trusted, dispatched, lastSent,
          shape, value, wire, damage, decoded>>

(* -------- the method facade: agent.rs 334-1139 -------- *)

\* One row per wrapper: <<wrapper, remote method name, channel, result type>>.
CatalogRows == {
    <<"ctr_get_consume_supply", "ctr_get_consume_supply", "query", "u8">>,
    <<"ctr_get_make_supply", "ctr_get_make_supply", "query", "u8">>,
    <<"ctr_get_send", "ctr_get_send", "query", "u8">>,
    <<"ctr_remove_address", "ctr_remove_address", "update", "Response">>,
    <<"ctr_remove_address_array", "ctr_remove_address", "update", "Response">>,
    <<"ctr_remove_blacklist", "ctr_remove_blacklist", "update", "Response">>,
    <<"ctr_remove_blacklist_array", "ctr_remove_blacklist_array", "update", "Response">>,
    <<"ctr_set_blacklist", "ctr_set_blacklist", "update", "Response">>,
    <<"ctr_set_blacklist_array", "ctr_set_blacklist_array", "update", "Response">>,
    <<"ctr_set_limit", "ctr_set_limit", "update", "Response">>,
    <<"ctr_set_limit_array", "ctr_set_limit_array", "update", "Response">>,
    <<"ctr_validate_usage_controller", "ctr_validate_usage_controller", "query", "bool">>,
    <<"event_account_update_count", "event_account_update_count", "query", "u64">>,
    <<"event_account_update_get", "event_account_update_get", "query", "Option<AccountUpdate>">>,
    <<"event_administrator_changed_count", "event_administrator_changed_count", "query", "u64">>,
    <<"event_administrator_changed_get", "event_administrator_changed_get", "query", "Option<AdministratorChanged>">>,
    <<"event_amendment_update_count", "event_amendment_update_count", "query", "u64">>,
    <<"event_amendment_update_get", "event_amendment_update_get", "query", "Option<AmendmentUpdate>">>,
    <<"event_asset_update_count", "event_asset_update_count", "query", "u64">>,
    <<"event_asset_update_get", "event_asset_update_get", "query", "Option<AssetUpdate>">>,
    <<"event_blacklist_changed_count", "event_blacklist_changed_count", "query", "u64">>,
    <<"event_blacklist_changed_get", "event_blacklist_changed_get", "query", "Option<BlacklistChanged>">>,
    <<"event_controller_created_count", "event_controller_created_count", "query", "u64">>,
    <<"event_controller_created_get", "event_controller_created_get", "query", "Option<ControllerCreated>">>,
    <<"event_ledger_added_count", "event_ledger_added_count", "query", "u64">>,
    <<"event_ledger_added_get", "event_ledger_added_get", "query", "Option<LedgerAdded>">>,
    <<"event_limit_changed_count", "event_limit_changed_count", "query", "u64">>,
    <<"event_limit_changed_get", "event_limit_changed_get", "query", "Option<LimitChanged>">>,
    <<"event_limit_consumed_count", "event_limit_consumed_count", "query", "u64">>,
    <<"event_limit_consumed_get", "event_limit_consumed_get", "query", "Option<LimitConsumed>">>,
    <<"event_ownership_transferred_count", "event_ownership_transferred_count", "query", "u64">>,
    <<"event_ownership_transferred_get", "event_ownership_transferred_get", "query", "Option<OwnershipTransferred>">>,
    <<"event_pause_changed_count", "event_pause_changed_count", "query", "u64">>,
    <<"event_pause_changed_get", "event_pause_changed_get", "query", "Option<PauseChanged>">>,
    <<"event_pricing_changed_count", "event_pricing_changed_count", "query", "u64">>,
    <<"event_pricing_changed_get", "event_pricing_changed_get", "query", "Option<PricingChanged>">>,
    <<"event_supply_update_count", "event_supply_update_count", "query", "u64">>,
    <<"event_supply_update_get", "event_supply_update_get", "query", "Option<SupplyUpdate>">>,
    <<"event_tokens_created_count", "event_tokens_created_count", "query", "u64">>,
    <<"event_tokens_created_get", "event_tokens_created_get", "query", "Option<TokensCreated>">>,
    <<"event_tokens_destroyed_count", "event_tokens_destroyed_count", "query", "u64">>,
    <<"event_tokens_destroyed_get", "event_tokens_destroyed_get", "query", "Option<TokensDestroyed>">>,
    <<"get_tx", "get_tx", "query", "Option<Transaction>">>,
    <<"int_create_supply", "int_create_supply", "update", "ResponseSupplyId">>,
    <<"int_get_balance", "int_get_balance", "query", "U256">>,
    <<"int_get_decimal_ptr", "int_get_decimal_ptr", "query", "U256">>,
    <<"int_get_ledger_id", "int_get_ledger_id", "query", "LedgerId">>,
    <<"int_get_ledger_contract_id", "int_get_ledger_contract_id", "query", "Option<ContractId>">>,
    <<"int_get_supply", "int_get_supply", "query", "Option<Supply>">>,
    <<"int_get_tokens", "int_get_tokens", "query", "U256">>,
    <<"int_run_warp", "int_run_warp", "update", "Response">>,
    <<"int_set_contract", "int_set_contract", "update", "Response">>,
    <<"int_set_price", "int_set_price", "update", "Response">>,
    <<"int_set_supply_controller", "int_set_supply_controller", "update", "Response">>,
    <<"int_terminate_supply", "int_terminate_supply", "update", "Response">>,
    <<"int_transfer_tokens", "int_transfer_tokens", "update", "Response">>,
    <<"int_update_supply_amount", "int_update_supply_amount", "update", "Response">>,
    <<"int_update_supply_exchange_rate", "int_update_supply_exchange_rate", "update", "ResponseSupplyId">>,
    <<"int_update_supply_expiry_date", "int_update_supply_expiry_date", "update", "Response">>,
    <<"led_amen_change_issuer", "led_amen_change_issuer", "update", "ResponseAmendmentId">>,
    <<"led_amen_create_amendment", "led_amen_create_amendment", "update", "ResponseAmendmentId">>,
    <<"led_amen_get_amendment", "led_amen_get_amendment", "query", "Option<Amendment>">>,
    <<"led_base_activate_asset", "led_base_activate_asset", "update", "Response">>,
    <<"led_base_create_asset", "led_base_create_asset", "update", "Response">>,
    <<"led_base_destroy_tokens", "led_base_destroy_tokens", "update", "Response">>,
    <<"led_base_get_asset", "led_base_get_asset", "query", "Option<Asset>">>,
    <<"led_base_issue_tokens", "led_base_issue_tokens", "update", "Response">>,
    <<"led_kyc_remove_usage_controller", "led_kyc_remove_usage_controller", "update", "Response">>,
    <<"led_kyc_set_usage_controller", "led_kyc_set_usage_controller", "update", "Response">>,
    <<"mng_contract_deployment_code", "mng_contract_deployment_code", "query", "String">>,
    <<"mng_contract_name", "mng_contract_name", "query", "String">>,
    <<"mng_contract_version", "mng_contract_version", "query", "String">>,
    <<"mng_create_clmp", "mng_create_clmp", "update", "ResponseContractId">>,
    <<"mng_create_controller", "mng_create_controller", "update", "ResponseContractId">>,
    <<"mng_create_integration", "mng_create_integration", "update", "ResponseContractId">>,
    <<"mng_grant_admin", "mng_grant_admin", "query", "bool">>,
    <<"mng_get_integration", "mng_get_integration", "query", "Option<ContractId>">>,
    <<"mng_is_admin", "mng_is_admin", "query", "bool">>,
    <<"mng_is_owner", "mng_is_owner", "query", "bool">>,
    <<"mng_owner", "mng_owner", "query", "Option<Principal>">>,
    <<"mng_pause", "mng_pause", "update", "Response">>,
    <<"mng_paused", "mng_paused", "query", "bool">>,
    <<"mng_renounce_ownership", "mng_renounce_ownership", "update", "Response">>,
    <<"mng_revoke_admin", "mng_revoke_admin", "update", "Response">>,
    <<"mng_transfer_ownership", "mng_transfer_ownership", "update", "Response">>,
    <<"mng_unpause", "mng_unpause", "update", "Response">>
}

Wrappers == {r[1] : r \in CatalogRows}

Catalog == [w \in Wrappers |-> CHOOSE r \in CatalogRows : r[1] = w]

\* Variant: every wrapper dispatches the method of its own name.
MethodNameOwn(w) == w

\* The string bound to `method_name` in wrapper w.
MethodName(w) == Catalog[w][2]

\* Variant: the channel negotiated per call, from the trace flag.
ChannelNegotiated(w) == IF TRACE THEN Catalog[w][3] ELSE "query"

\* The invoker the wrapper hands its arguments to: self.query or self.update.
ChannelOf(w) == Catalog[w][3]

\* Variant: the result of a wrapper without its Option.
ResultTypeUnwrapped(w) ==
    LET t == Catalog[w][4]
    IN  IF Len(t) > 8 /\ SubSeq(t, 1, 7) = "Option<" THEN SubSeq(t, 8, Len(t) - 1) ELSE t

\* The type the wrapper decodes its reply into.
ResultType(w) == Catalog[w][4]

\* The records of agent.rs that have a field tx_id, with their fields.
RecordRows == {
    <<"Response", <<"tx_id">>>>,
    <<"Transaction", <<"occured_on", "tx_id", "events">>>>,
    <<"ResponseSupplyId", <<"tx_id", "data">>>>,
    <<"ResponseAmendmentId", <<"tx_id", "data">>>>,
    <<"ResponseContractId", <<"tx_id", "data">>>>
}

\* The fields of the record type t; none for a type that is no such record.
FieldsOf(t) ==
    IF \E r \in RecordRows : r[1] = t THEN (CHOOSE r \in RecordRows : r[1] = t)[2] ELSE <<>>

\* One row per wrapper: <<wrapper, types of the arguments it encodes, in order>>.
ArgRows == {
    <<"ctr_get_consume_supply", <<"ContractId", "Principal", "SupplyId", "U256">>>>,
    <<"ctr_get_make_supply", <<"ContractId", "Principal", "UniqueAssetId", "UniqueAssetId", "U256">>>>,
    <<"ctr_get_send", <<"ContractId", "Option<Principal>", "Option<Principal>", "U256">>>>,
    <<"ctr_remove_address", <<"ContractId", "Principal">>>>,
    <<"ctr_remove_address_array", <<"ContractId", "Vec<Principal>">>>>,
    <<"ctr_remove_blacklist", <<"ContractId", "Principal">>>>,
    <<"ctr_remove_blacklist_array", <<"ContractId", "Vec<Principal>">>>>,
    <<"ctr_set_blacklist", <<"ContractId", "Principal", "u8">>>>,
    <<"ctr_set_blacklist_array", <<"ContractId", "Vec<Principal>", "Vec<u8>">>>>,
    <<"ctr_set_limit", <<"ContractId", "Principal", "U256">>>>,
    <<"ctr_set_limit_array", <<"ContractId", "Vec<Principal>", "Vec<U256>">>>>,
    <<"ctr_validate_usage_controller", <<"Option<ContractId>">>>>,
    <<"event_account_update_count", <<>>>>,
    <<"event_account_update_get", <<"u64">>>>,
    <<"event_administrator_changed_count", <<"ContractId">>>>,
    <<"event_administrator_changed_get", <<"ContractId", "u64">>>>,
    <<"event_amendment_update_count", <<"LedgerId">>>>,
    <<"event_amendment_update_get", <<"LedgerId", "u64">>>>,
    <<"event_asset_update_count", <<"LedgerId">>>>,
    <<"event_asset_update_get", <<"LedgerId", "u64">>>>,
    <<"event_blacklist_changed_count", <<"ContractId">>>>,
    <<"event_blacklist_changed_get", <<"ContractId", "u64">>>>,
    <<"event_controller_created_count", <<>>>>,
    <<"event_controller_created_get", <<"u64">>>>,
    <<"event_ledger_added_count", <<>>>>,
    <<"event_ledger_added_get", <<"u64">>>>,
    <<"event_limit_changed_count", <<"ContractId">>>>,
    <<"event_limit_changed_get", <<"ContractId", "u64">>>>,
    <<"event_limit_consumed_count", <<"ContractId">>>>,
    <<"event_limit_consumed_get", <<"ContractId", "u64">>>>,
    <<"event_ownership_transferred_count", <<"ContractId">>>>,
    <<"event_ownership_transferred_get", <<"ContractId", "u64">>>>,
    <<"event_pause_changed_count", <<"ContractId">>>>,
    <<"event_pause_changed_get", <<"ContractId", "u64">>>>,
    <<"event_pricing_changed_count", <<>>>>,
    <<"event_pricing_changed_get", <<"u64">>>>,
    <<"event_supply_update_count", <<>>>>,
    <<"event_supply_update_get", <<"u64">>>>,
    <<"event_tokens_created_count", <<>>>>,
    <<"event_tokens_created_get", <<"u64">>>>,
    <<"event_tokens_destroyed_count", <<>>>>,
    <<"event_tokens_destroyed_get", <<"u64">>>>,
    <<"get_tx", <<"TxId">>>>,
    <<"int_create_supply", <<"CreateSupplyRequest">>>>,
    <<"int_get_balance", <<"UniqueAssetId", "Principal">>>>,
    <<"int_get_decimal_ptr", <<>>>>,
    <<"int_get_ledger_id", <<"ContractId">>>>,
    <<"int_get_ledger_contract_id", <<"LedgerId">>>>,
    <<"int_get_supply", <<"SupplyId">>>>,
    <<"int_get_tokens", <<"ContractId", "AssetId">>>>,
    <<"int_run_warp", <<"RunWarpRequest">>>>,
    <<"int_set_contract", <<"ContractId", "LedgerId">>>>,
    <<"int_set_price", <<"u8", "UniqueAssetId", "U256", "Principal">>>>,
    <<"int_set_supply_controller", <<"SupplyId", "Option<ContractId>">>>>,
    <<"int_terminate_supply", <<"SupplyId">>>>,
    <<"int_transfer_tokens", <<"UniqueAssetId", "Principal", "U256">>>>,
    <<"int_update_supply_amount", <<"SupplyId", "U256", "U256">>>>,
    <<"int_update_supply_exchange_rate", <<"SupplyId", "U256">>>>,
    <<"int_update_supply_expiry_date", <<"SupplyId", "u64">>>>,
    <<"led_amen_change_issuer", <<"ContractId", "AssetId", "Hash", "Principal">>>>,
    <<"led_amen_create_amendment", <<"ContractId", "AssetId", "Hash">>>>,
    <<"led_amen_get_amendment", <<"AmendmentId">>>>,
    <<"led_base_activate_asset", <<"ContractId", "AssetId", "Hash", "bool", "Option<ContractId>">>>>,
    <<"led_base_create_asset", <<"ContractId", "AssetId">>>>,
    <<"led_base_destroy_tokens", <<"ContractId", "AssetId", "U256">>>>,
    <<"led_base_get_asset", <<"ContractId", "AssetId">>>>,
    <<"led_base_issue_tokens", <<"ContractId", "AssetId", "U256">>>>,
    <<"led_kyc_remove_usage_controller", <<"ContractId", "AssetId">>>>,
    <<"led_kyc_set_usage_controller", <<"ContractId", "AssetId", "ContractId">>>>,
    <<"mng_contract_deployment_code", <<"ContractId">>>>,
    <<"mng_contract_name", <<"ContractId">>>>,
    <<"mng_contract_version", <<"ContractId">>>>,
    <<"mng_create_clmp", <<"String">>>>,
    <<"mng_create_controller", <<"String", "Principal">>>>,
    <<"mng_create_integration", <<"String", "U256">>>>,
    <<"mng_grant_admin", <<"ContractId", "Principal">>>>,
    <<"mng_get_integration", <<>>>>,
    <<"mng_is_admin", <<"ContractId", "Principal">>>>,
    <<"mng_is_owner", <<"ContractId", "Principal">>>>,
    <<"mng_owner", <<"ContractId">>>>,
    <<"mng_pause", <<"ContractId">>>>,
    <<"mng_paused", <<"ContractId">>>>,
    <<"mng_renounce_ownership", <<"ContractId">>>>,
    <<"mng_revoke_admin", <<"ContractId", "Principal">>>>,
    <<"mng_transfer_ownership", <<"ContractId", "Principal">>>>,
    <<"mng_unpause", <<"ContractId">>>>
}

\* Variant: the `get` wrappers encode the index alone.
ArgTypesNoScope(w) ==
    LET a == (CHOOSE r \in ArgRows : r[1] = w)[2]
    IN  IF Len(a) > 1 /\ a[Len(a)] = "u64" THEN <<"u64">> ELSE a

\* The types of the values wrapper w passes to Encode!, in order.
ArgTypes(w) == (CHOOSE r \in ArgRows : r[1] = w)[2]

\* enum EventType
EventType == {
    "AssetUpdate", "AdministratorChanged", "AmendmentUpdate", "SupplyUpdate",
    "PauseChanged", "LedgerAdded", "LimitChanged", "TokensCreated",
    "ControllerCreated", "LimitConsumed", "TokensDestroyed", "PricingChanged",
    "AccountUpdate", "OwnershipTransferred", "BlacklistChanged"
}

(* -------- inputs -------- *)

\* The identity an Agent is built with (main.rs 46: no with_identity), and the
\* users whose credentials the caller can swap in (main.rs 77-91).
InitialIdentity == "anonymous"

Credentials == {"anonymous", "alice", "exchange"}

\* The wrappers the concurrent invoker model draws its calls from: one per channel.
CoreOps == {"int_get_balance", "int_transfer_tokens"}

\* What the transport hands back for an awaited call: an AgentError (network
\* failure or remote rejection), reply bytes that do not parse as the result
\* type, or reply bytes that do.
Replies == {"error", "garbled", "valid"}

Slots == 1..MaxCalls

Idle == [phase |-> "idle", op |-> "none", channel |-> "none", cred |-> "none", trace |-> FALSE,
         before |-> FALSE, steps |-> <<>>]

NoReturn == [op |-> "none", channel |-> "none", outcome |-> "none", cred |-> "none", trace |-> FALSE,
             before |-> FALSE, after |-> FALSE, steps |-> <<>>, reply |-> "none",
             flagAtReturn |-> FALSE]

NoRequest == [op |-> "none", name |-> "none", channel |-> "none"]

InitInvoker ==
    /\ identity = InitialIdentity
    /\ TRACE = TRUE
    /\ borrows = 0
    /\ panicked = FALSE
    /\ calls = [c \in Slots |-> Idle]
    /\ returned = NoReturn
    /\ lastSet = InitialIdentity

InitCatalog ==
    /\ request = NoRequest
    /\ previous = NoRequest

\* Placeholder for asset_id while no CreateAssetRequest exists (createPc = "idle").
NoAsset == <<>>

\* What create_asset has returned and done: nothing yet.
NotCreated == [outcome |-> "none", id |-> <<>>, calls |-> <<>>, reply |-> "none"]

InitAsset ==
    /\ req = NoAsset
    /\ createPc = "idle"
    /\ created = NotCreated
    /\ earlier = NotCreated

\* An event kind with its scope, as the wrappers encode them: TokensCreated
\* takes no scope argument, AdministratorChanged is keyed by a ContractId.
EventScopes ==
    {[kind |-> "TokensCreated", scope |-> <<>>],
     [kind |-> "AdministratorChanged", scope |-> <<1>>],
     [kind |-> "AdministratorChanged", scope |-> <<2>>]}

EventIndexes == 0..(MaxEvents + 1)

NoCount == [key |-> [kind |-> "none", scope |-> <<>>], outcome |-> "none", total |-> 0]
NoGet == [key |-> [kind |-> "none", scope |-> <<>>], index |-> 0, reply |-> "none", outcome |-> "none", event |-> <<>>]

InitEvent ==
    /\ log = [k \in EventScopes |-> 0]
    /\ counted = NoCount
    /\ got = NoGet

\* No call is awaited.
NoFlight == [op |-> "none", subject |-> "", cred |-> "", channel |-> "", trace |-> FALSE,
             before |-> FALSE, after |-> FALSE, reply |-> "none"]

InitDemo ==
    /\ phase = "start"
    /\ pc = 1
    /\ flight = NoFlight
    /\ trusted = FALSE
    /\ dispatched = 0
    /\ lastSent = NoFlight

\* Nothing was decoded yet.
NoDecoded == [as |-> "none", outcome |-> "none", value |-> <<>>]

InitCodec ==
    /\ shape = "none"
    /\ value = <<>>
    /\ wire = <<>>
    /\ damage = "none"
    /\ decoded = NoDecoded

Init == InitInvoker /\ InitCatalog /\ InitAsset /\ InitEvent /\ InitDemo /\ InitCodec

(* -------- Service::set_identity, Service::TRACE -------- *)

\* Every future that exists is dropped when the thread unwinds.
Unwound == [c \in Slots |-> IF calls[c].phase = "idle" THEN Idle
                                ELSE [calls[c] EXCEPT !.phase = "aborted"]]

\* self.agent.borrow_mut().set_identity(identity): RefCell::borrow_mut panics
\* when a shared borrow is outstanding; otherwise the agent's identity is
\* replaced, whatever the credential is.
SetIdentity(cr) ==
    /\ ~panicked
    /\ IF borrows > 0
         THEN /\ panicked' = TRUE
              /\ calls' = Unwound
              /\ borrows' = 0
              /\ UNCHANGED <<identity, lastSet>>
         ELSE /\ identity' = cr
              /\ lastSet' = cr
              /\ UNCHANGED <<panicked, calls, borrows>>
    /\ UNCHANGED <<TRACE, returned, exceptInvoker>>

\* Service::TRACE.set(b), as print_balances does on entry and exit.
SetTrace(b) ==
    /\ ~panicked
    /\ TRACE' = b
    /\ UNCHANGED <<identity, borrows, panicked, calls, returned, lastSet, exceptInvoker>>

(* -------- a facade call: wrapper, then Service::query / Service::update -------- *)

\* Variant: the credential the agent was built with.
SignerAtConstruction == InitialIdentity

\* The credential the agent signs a request with: the identity it holds when
\* the request is built.
Signer == identity

\* let trace = Self::TRACE.with(|t| t.borrow().clone());
SampleTrace == TRACE

\* The future of wrapper w once its first poll has encoded the arguments, read
\* the trace flag, printed the before-log, borrowed the agent and handed the
\* request to the transport: it now awaits the reply.
Started(w) ==
    [phase |-> "awaiting", op |-> w, channel |-> ChannelOf(w), cred |-> Signer, trace |-> SampleTrace,
     before |-> SampleTrace, steps |-> <<"encode", "send">>]

\* What a wrapper returns when Encode! fails: the `?` leaves before query/update.
EncodingFailed(w) ==
    [NoReturn EXCEPT !.op = w, !.outcome = "encoding", !.steps = <<"encode">>,
                     !.flagAtReturn = TRACE]

\* Variant: the after-log governed by the flag as it is when the reply arrives.
FinishedLiveFlag(f, r) ==
    [op |-> f.op, channel |-> f.channel, cred |-> f.cred, trace |-> f.trace,
     before |-> f.before, flagAtReturn |-> TRACE, reply |-> r,
     outcome |-> CASE r = "error" -> "agent"
                   [] r = "garbled" -> "decoding"
                   [] OTHER -> "ok",
     steps |-> IF r = "error" THEN f.steps ELSE Append(f.steps, "decode"),
     after |-> (r = "valid" /\ TRACE)]

\* Variant: the reply of a failed request is decoded all the same.
FinishedDecodesError(f, r) ==
    [op |-> f.op, channel |-> f.channel, cred |-> f.cred, trace |-> f.trace,
     before |-> f.before, flagAtReturn |-> TRACE, reply |-> r,
     outcome |-> CASE r = "error" -> "decoding"
                   [] r = "garbled" -> "decoding"
                   [] OTHER -> "ok",
     steps |-> Append(f.steps, "decode"),
     after |-> (r = "valid" /\ f.trace)]

\* Variant: " ok" is printed as soon as the reply is in, before Decode!.
FinishedLogsEarly(f, r) ==
    [op |-> f.op, channel |-> f.channel, cred |-> f.cred, trace |-> f.trace,
     before |-> f.before, flagAtReturn |-> TRACE, reply |-> r,
     outcome |-> CASE r = "error" -> "agent"
                   [] r = "garbled" -> "decoding"
                   [] OTHER -> "ok",
     steps |-> IF r = "error" THEN f.steps ELSE Append(f.steps, "decode"),
     after |-> (r # "error" /\ f.trace)]

\* What query/update return once the awaited reply r is in: `.await?` returns
\* the agent's error; otherwise Decode! runs, and its error is returned by `?`;
\* otherwise the after-log is printed if the local `trace` is set.
Finished(f, r) ==
    [op |-> f.op, channel |-> f.channel, cred |-> f.cred, trace |-> f.trace, before |-> f.before,
     flagAtReturn |-> TRACE, reply |-> r,
     outcome |-> CASE r = "error" -> "agent"
                   [] r = "garbled" -> "decoding"
                   [] OTHER -> "ok",
     steps |-> IF r = "error" THEN f.steps ELSE Append(f.steps, "decode"),
     after |-> (r = "valid" /\ f.trace)]

\* Variant: the borrow of the agent outlives the call.
Held(b) == b

\* The Ref<Agent> temporary of `self.agent.borrow()` lives to the end of the
\* `let response = ...;` statement and is dropped there, also when `?` returns.
Released(b) == b - 1

\* Calling an async fn builds its future and runs nothing of its body.
Invoke(c, w) ==
    /\ ~panicked
    /\ calls[c].phase = "idle"
    /\ \A d \in Slots : d < c => calls[d].phase # "idle"
    /\ calls' = [calls EXCEPT ![c] = [Idle EXCEPT !.phase = "created", !.op = w]]
    /\ UNCHANGED <<identity, TRACE, borrows, panicked, returned, lastSet, exceptInvoker>>

\* Variant: the agent is locked for the length of a call, so that a call
\* waits until no other call holds it.
DispatchExclusive(c, encOk) ==
    /\ ~panicked
    /\ calls[c].phase = "created"
    /\ borrows = 0
    /\ IF encOk
         THEN /\ calls' = [calls EXCEPT ![c] = Started(calls[c].op)]
              /\ borrows' = borrows + 1
              /\ UNCHANGED returned
         ELSE /\ calls' = [calls EXCEPT ![c] = Idle]
              /\ returned' = EncodingFailed(calls[c].op)
              /\ UNCHANGED borrows
    /\ UNCHANGED <<identity, TRACE, panicked, lastSet, exceptInvoker>>

\* The first poll of the future: the wrapper's Encode!, then query/update up to
\* the `.await` of the agent's request.
Dispatch(c, encOk) ==
    /\ ~panicked
    /\ calls[c].phase = "created"
    /\ IF encOk
         THEN /\ calls' = [calls EXCEPT ![c] = Started(calls[c].op)]
              /\ borrows' = borrows + 1
              /\ UNCHANGED returned
         ELSE /\ calls' = [calls EXCEPT ![c] = Idle]
              /\ returned' = EncodingFailed(calls[c].op)
              /\ UNCHANGED borrows
    /\ UNCHANGED <<identity, TRACE, panicked, lastSet, exceptInvoker>>

\* Variant: a failed request is sent once more before the failure is returned.
ReplyWithRetry(c, r) ==
    /\ ~panicked
    /\ calls[c].phase = "awaiting"
    /\ IF r = "error" /\ Len(calls[c].steps) < 3
         THEN /\ calls' = [calls EXCEPT ![c].steps = Append(@, "send")]
              /\ UNCHANGED <<returned, borrows>>
         ELSE /\ returned' = Finished(calls[c], r)
              /\ calls' = [calls EXCEPT ![c] = Idle]
              /\ borrows' = Released(borrows)
    /\ UNCHANGED <<identity, TRACE, panicked, lastSet, exceptInvoker>>

\* The poll that finds the reply: query/update from the `.await` to their return.
Reply(c, r) ==
    /\ ~panicked
    /\ calls[c].phase = "awaiting"
    /\ returned' = Finished(calls[c], r)
    /\ calls' = [calls EXCEPT ![c] = Idle]
    /\ borrows' = Released(borrows)
    /\ UNCHANGED <<identity, TRACE, panicked, lastSet, exceptInvoker>>

Next ==
    \/ \E cr \in Credentials : SetIdentity(cr)
    \/ \E b \in BOOLEAN : SetTrace(b)
    \/ \E c \in Slots, w \in CoreOps : Invoke(c, w)
    \/ \E c \in Slots, encOk \in BOOLEAN : Dispatch(c, encOk)
    \/ \E c \in Slots, r \in Replies : Reply(c, r)

Spec == Init /\ [][Next]_vars


(* -------- the facade seen from the transport: one awaited call at a time -------- *)

\* `service.w(args).await` with no other future polled meanwhile: the wrapper
\* encodes, and query/update hand the transport a request for MethodName(w) on
\* the wrapper's channel.
FacadeCall(w, encOk) ==
    /\ ~panicked
    /\ borrows = 0
    /\ IF encOk
         THEN /\ request' = [op |-> w, name |-> MethodName(w), channel |-> ChannelOf(w)]
              /\ previous' = request
         ELSE UNCHANGED <<request, previous>>
    /\ UNCHANGED exceptCatalog

NextCatalog ==
    \/ \E cr \in Credentials : SetIdentity(cr)
    \/ \E b \in BOOLEAN : SetTrace(b)
    \/ \E w \in Wrappers, encOk \in BOOLEAN : FacadeCall(w, encOk)

SpecCatalog == Init /\ [][NextCatalog]_vars

(* -------- Scenarios::create_asset: scenarios.rs 357-381 -------- *)

\* const CLMP_LEDGER_ID: LedgerId = 1;
CLMP_LEDGER_ID == 1

\* Byte values asset identifiers are built from.
ByteSamples == {0, 1, 128, 255}

\* A byte string of length n: first byte h, last byte t, m in between.
SampleBytes(n, h, m, t) ==
    [i \in 1..n |-> IF i = 1 THEN h ELSE IF i = n THEN t ELSE m]

\* A BigUint is modelled by its big-endian bytes without leading zero bytes;
\* zero is the empty sequence.
RECURSIVE FromBytesBE(_)
\* BigUint::from_bytes_be: leading zero bytes carry no value.
FromBytesBE(bs) ==
    IF bs = <<>> THEN <<>>
    ELSE IF Head(bs) = 0 THEN FromBytesBE(Tail(bs))
    ELSE bs

\* BigUint::to_bytes_be: the bytes of the value; zero gives the single byte 0.
ToBytesBE(n) == IF n = <<>> THEN <<0>> ELSE n

\* Variant: the ledger identifier in little-endian order.
U16ToLeBytes(l) == <<l % 256, l \div 256>>

\* u16::to_be_bytes
U16ToBeBytes(l) == <<l \div 256, l % 256>>

\* Variant: the identifier narrowed to 64 bits, its lowest 8 bytes.
UniqueAssetIdNarrowed(asset_id, l) ==
    LET whole == ToBytesBE(asset_id) \o U16ToBeBytes(l)
    IN  FromBytesBE(IF Len(whole) > 8 THEN SubSeq(whole, Len(whole) - 7, Len(whole))
                                     ELSE whole)

\* The derivation of create_asset: push every byte of asset_id.to_bytes_be(),
\* extend with CLMP_LEDGER_ID.to_be_bytes(), read the whole as one big-endian
\* unsigned integer.
UniqueAssetId(asset_id, l) ==
    LET asset_id_bytes == ToBytesBE(asset_id)
        pushed == [i \in 1..Len(asset_id_bytes) |-> asset_id_bytes[i]]
        unique_asset_id_bytes == pushed \o U16ToBeBytes(l)
    IN  FromBytesBE(unique_asset_id_bytes)

\* CreateAssetRequest::default(): asset_id is the BigUint of random bytes.
NewRequest(n, h, m, t) ==
    /\ createPc = "idle"
    /\ req' = FromBytesBE(SampleBytes(n, h, m, t))
    /\ createPc' = "ready"
    /\ created' = NotCreated
    /\ UNCHANGED <<earlier, exceptAsset>>

\* The remote call of create_asset: scenarios.rs 361-369.
ActivateAsset ==
    [op |-> "led_base_activate_asset", channel |-> ChannelOf("led_base_activate_asset")]

\* create_asset up to the `.await` of led_base_activate_asset: the wrapper
\* encodes and dispatches, or its encoding error is returned by `?`.
CreateAssetCall(encOk) ==
    /\ createPc = "ready"
    /\ IF encOk
         THEN /\ createPc' = "awaiting"
              /\ created' = [created EXCEPT !.calls = Append(@, ActivateAsset)]
         ELSE /\ createPc' = "returned"
              /\ created' = [created EXCEPT !.outcome = "encoding"]
    /\ UNCHANGED <<req, earlier, exceptAsset>>

\* Variant: the result of led_base_activate_asset is dropped, and the
\* identifier is derived whatever it was.
CreateAssetResumeUnchecked(r) ==
    /\ createPc = "awaiting"
    /\ createPc' = "returned"
    /\ created' = [created EXCEPT !.outcome = "ok", !.reply = r,
                                  !.id = UniqueAssetId(req, CLMP_LEDGER_ID)]
    /\ UNCHANGED <<req, earlier, exceptAsset>>

\* create_asset from the reply of led_base_activate_asset to its return: a
\* failed call is returned by `?`; otherwise the identifier is derived.
CreateAssetResume(r) ==
    /\ createPc = "awaiting"
    /\ createPc' = "returned"
    /\ created' = CASE r = "error" -> [created EXCEPT !.outcome = "agent", !.reply = r]
                    [] r = "garbled" -> [created EXCEPT !.outcome = "decoding", !.reply = r]
                    [] OTHER -> [created EXCEPT !.outcome = "ok", !.reply = r,
                                                !.id = UniqueAssetId(req, CLMP_LEDGER_ID)]
    /\ UNCHANGED <<req, earlier, exceptAsset>>

\* create_asset takes its request by reference: the caller may call it again
\* with the same request once it has returned.
CreateAssetAgain ==
    /\ createPc = "returned"
    /\ createPc' = "ready"
    /\ earlier' = created
    /\ created' = NotCreated
    /\ UNCHANGED <<req, exceptAsset>>

NextAsset ==
    \/ \E n \in 0..MaxAssetBytes, h \in ByteSamples, m \in ByteSamples, t \in ByteSamples :
          NewRequest(n, h, m, t)
    \/ \E encOk \in BOOLEAN : CreateAssetCall(encOk)
    \/ \E r \in Replies : CreateAssetResume(r)
    \/ CreateAssetAgain

SpecAsset == Init /\ [][NextAsset]_vars

(* -------- event-log pagination: agent.rs 485-502, 697-710 -------- *)

\* The remote ledger's side of the two queries; the ledger is not in src/.
\* count(scope) -> total.
RemoteCount(k) == log[k]

\* The index taken as one-based.
RemoteGetOneBased(k, i) ==
    IF 1 <= i /\ i <= log[k] THEN <<[kind |-> k.kind, scope |-> k.scope, ix |-> i]>> ELSE <<>>

\* get(scope, index) -> optional event, index zero-based: the event below
\* count, "not found" from count on.  An Option is a sequence of at most one
\* element.
RemoteGet(k, i) ==
    IF i < log[k] THEN <<[kind |-> k.kind, scope |-> k.scope, ix |-> i]>> ELSE <<>>

\* Service::query: `?` after the transport call, `?` after Decode!.
QueryOutcome(r) ==
    CASE r = "error" -> "agent"
      [] r = "garbled" -> "decoding"
      [] OTHER -> "ok"

\* Service::event_<kind>_count awaited to completion: the u64 of the reply
\* when it arrives and decodes, the failure otherwise.
EventCount(k, r) ==
    /\ counted' = [key |-> k,
                   outcome |-> QueryOutcome(r),
                   total |-> IF r = "valid" THEN RemoteCount(k) ELSE 0]
    /\ got' = NoGet
    /\ UNCHANGED <<log, exceptEvent>>

\* Service::event_<kind>_get awaited to completion: Ok(Some(event)) or
\* Ok(None) as the reply decodes to Option<event>, the failure otherwise.
EventGet(k, i, r) ==
    /\ got' = [key |-> k, index |-> i, reply |-> r,
               outcome |-> QueryOutcome(r),
               event |-> IF r = "valid" THEN RemoteGet(k, i) ELSE <<>>]
    /\ UNCHANGED <<log, counted, exceptEvent>>

\* An update call that the remote ledger executes records an event; what was
\* counted before it is no longer a count "with no intervening update call".
RemoteUpdate(k) ==
    /\ log[k] < MaxEvents
    /\ log' = [log EXCEPT ![k] = @ + 1]
    /\ counted' = NoCount
    /\ got' = NoGet
    /\ UNCHANGED exceptEvent

NextEvent ==
    \/ \E k \in EventScopes, r \in Replies : EventCount(k, r)
    \/ \E k \in EventScopes, i \in EventIndexes, r \in Replies : EventGet(k, i, r)
    \/ \E k \in EventScopes : RemoteUpdate(k)

SpecEvent == Init /\ [][NextEvent]_vars

(* -------- the demo: main.rs 10-59, scenarios.rs 23-398 -------- *)

\* A statement of dfinity_demo or of a function it awaits.
SetId(cred, line) ==
    [kind |-> "set_identity", fn |-> "dfinity_demo", op |-> "", arg |-> cred, line |-> line]
Call(fn, op, subject, line) ==
    [kind |-> "call", fn |-> fn, op |-> op, arg |-> subject, line |-> line]
\* A statement that talks to no one and may panic (an unwrap).
Local(line) ==
    [kind |-> "local", fn |-> "dfinity_demo", op |-> "", arg |-> "", line |-> line]
SetTraceStmt(b, line) ==
    [kind |-> "trace", fn |-> "print_balances", op |-> "", arg |-> b, line |-> line]
Balance(subject, line) == Call("print_balances", "int_get_balance", subject, line)

\* Scenarios::print_balances: scenarios.rs 234-347.
PrintBalancesBody ==
    <<SetTraceStmt("false", 237),
      Balance("RE/alice", 254), Balance("RE/bob", 261),
      Balance("RE/charlie", 268), Balance("RE/exchange", 275),
      Balance("USD/alice", 285), Balance("USD/bob", 292),
      Balance("USD/charlie", 299), Balance("USD/exchange", 306),
      Balance("BTC/alice", 316), Balance("BTC/bob", 323),
      Balance("BTC/charlie", 330), Balance("BTC/exchange", 337),
      SetTraceStmt("true", 344)>>

\* Variant: print_balances leaves the trace flag alone.
PrintBalancesLoud == SubSeq(PrintBalancesBody, 2, Len(PrintBalancesBody) - 1)

PrintBalances == PrintBalancesBody

\* Scenarios::dfinity_demo with create_asset, print_balances and run_warp
\* in line: scenarios.rs 40-232.
Statements ==
    <<Local(45),
      SetId("alice", 52),
      Call("create_asset", "led_base_activate_asset", "RE", 369),
      Call("dfinity_demo", "led_base_get_asset", "RE", 64),
      Local(68),
      Call("dfinity_demo", "led_base_issue_tokens", "RE", 78),
      Local(82),
      SetId("exchange", 85),
      Call("create_asset", "led_base_activate_asset", "USD", 369),
      Call("dfinity_demo", "led_base_issue_tokens", "USD", 100),
      SetId("exchange", 103),
      Call("create_asset", "led_base_activate_asset", "BTC", 369),
      Call("dfinity_demo", "led_base_issue_tokens", "BTC", 118),
      Local(122)>>
    \o PrintBalances \o
    <<Local(139),
      SetId("alice", 141),
      Call("dfinity_demo", "int_transfer_tokens", "RE", 144),
      Local(148),
      SetId("exchange", 150),
      Call("dfinity_demo", "int_transfer_tokens", "BTC", 153)>>
    \o PrintBalances \o
    <<Local(161),
      Local(165),
      SetId("alice", 171),
      Call("dfinity_demo", "int_create_supply", "RE=>USD", 187),
      SetId("exchange", 193),
      Call("dfinity_demo", "int_create_supply", "USD=>BTC", 209),
      Local(215),
      SetId("charlie", 217),
      Call("run_warp", "int_run_warp", "warp", 395),
      Local(225)>>
    \o PrintBalances

\* Variant: the swap to the exchange before the BTC transfer is left out.
DemoScriptWithoutSwap ==
    [i \in 1..Len(Statements) |->
        IF Statements[i].line = 150 THEN Local(150) ELSE Statements[i]]

\* Variant: the swap to alice at the start of the demo is left out.
DemoScriptWithoutFirstSwap ==
    [i \in 1..Len(Statements) |->
        IF Statements[i].line = 52 THEN Local(52) ELSE Statements[i]]

DemoScript == Statements

\* Variant: a failure in init_service is dropped.
TryInitIgnored(ok, next) == next

\* The `?` of init_service: the next statement on Ok, return of the Err to
\* main otherwise.
TryInit(ok, next) == IF ok THEN next ELSE "init_failed"

\* io::stdin().read_line(..).unwrap(): main.rs 14.
Start(ok) ==
    /\ phase = "start"
    /\ phase' = IF ok THEN "build" ELSE "panicked"
    /\ UNCHANGED <<invokerVars, pc, flight, trusted, dispatched, lastSent, exceptDemo>>

\* Agent::builder().with_url(url).build()?: main.rs 46.
BuildAgent(ok) ==
    /\ phase = "build"
    /\ phase' = TryInit(ok, "fetch_root_key")
    /\ UNCHANGED <<invokerVars, pc, flight, trusted, dispatched, lastSent, exceptDemo>>

\* agent.fetch_root_key().await?: main.rs 47.
FetchRootKey(ok) ==
    /\ phase = "fetch_root_key"
    /\ trusted' = ok
    /\ phase' = TryInit(ok, "from_text")
    /\ UNCHANGED <<invokerVars, pc, flight, dispatched, lastSent, exceptDemo>>

\* Principal::from_text(canister_id)?, Service::new: main.rs 49-53.
NewService(ok) ==
    /\ phase = "from_text"
    /\ phase' = TryInit(ok, "scenarios_init")
    /\ UNCHANGED <<invokerVars, pc, flight, trusted, dispatched, lastSent, exceptDemo>>

\* main.rs 17 and 22: main panics on the Err of init_service or of run.
MainPanics ==
    /\ phase \in {"init_failed", "run_failed"}
    /\ phase' = IF phase = "init_failed" THEN "panicked_init" ELSE "panicked_run"
    /\ UNCHANGED <<invokerVars, pc, flight, trusted, dispatched, lastSent, exceptDemo>>

\* What Service::query / Service::update hand to the transport for wrapper w.
Sent(w, subject) ==
    [op |-> w, subject |-> subject, cred |-> Signer, channel |-> ChannelOf(w),
     trace |-> SampleTrace, before |-> SampleTrace, after |-> FALSE, reply |-> "none"]

\* The call f once its reply r is in: query/update print " ok" after Decode!
\* succeeded, if the local `trace` is set.
AfterLog(f, r) == [f EXCEPT !.after = (r = "valid" /\ f.trace), !.reply = r]

\* Scenarios::init, the call: scenarios.rs 24-26.  A failure of Encode! comes
\* back as an Err, on which the first unwrap panics.
ScenariosInitCall(encOk) ==
    /\ phase = "scenarios_init"
    /\ flight = NoFlight
    /\ IF encOk
          THEN /\ flight' = Sent("int_get_ledger_contract_id", "CLMP_LEDGER_ID")
               /\ lastSent' = flight'
               /\ dispatched' = dispatched + 1
               /\ borrows' = borrows + 1
               /\ UNCHANGED phase
          ELSE /\ phase' = "panicked"
               /\ UNCHANGED <<flight, lastSent, dispatched, borrows>>
    /\ UNCHANGED <<identity, TRACE, panicked, lastSet, pc, trusted, exceptDemo>>

\* Scenarios::init, the two unwraps: scenarios.rs 27-28.  An Err and an
\* Ok(None) both panic.
ScenariosInitReturn(r) ==
    /\ phase = "scenarios_init"
    /\ flight # NoFlight
    /\ flight' = NoFlight
    /\ borrows' = Released(borrows)
    /\ phase' = IF r = "valid" THEN "demo" ELSE "panicked"
    /\ lastSent' = AfterLog(flight, r)
    /\ UNCHANGED <<identity, TRACE, panicked, lastSet, pc, trusted, dispatched, exceptDemo>>

Running == phase = "demo" /\ pc <= Len(DemoScript)

\* An unwrap on a local result: it goes on or panics.
DemoLocal(ok) ==
    /\ Running
    /\ DemoScript[pc].kind = "local"
    /\ IF ok THEN pc' = pc + 1 /\ UNCHANGED phase
             ELSE phase' = "panicked" /\ UNCHANGED pc
    /\ UNCHANGED <<invokerVars, flight, trusted, dispatched, lastSent, exceptDemo>>

\* self.service.set_identity(..): as SetIdentity, a panic if the agent is borrowed.
DemoSetIdentity ==
    /\ Running
    /\ DemoScript[pc].kind = "set_identity"
    /\ IF borrows > 0
          THEN /\ panicked' = TRUE
               /\ phase' = "panicked"
               /\ UNCHANGED <<identity, lastSet, pc>>
          ELSE /\ identity' = DemoScript[pc].arg
               /\ lastSet' = DemoScript[pc].arg
               /\ pc' = pc + 1
               /\ UNCHANGED <<panicked, phase>>
    /\ UNCHANGED <<TRACE, borrows, flight, trusted, dispatched, lastSent, exceptDemo>>

\* Service::TRACE.set(..): scenarios.rs 237 and 344.
DemoSetTrace ==
    /\ Running
    /\ DemoScript[pc].kind = "trace"
    /\ TRACE' = (DemoScript[pc].arg = "true")
    /\ pc' = pc + 1
    /\ UNCHANGED <<identity, borrows, panicked, lastSet, phase, flight, trusted, dispatched,
                   lastSent, exceptDemo>>

\* A wrapper call up to its await: Encode!(..)? returns the Err through every
\* `?` up to main; otherwise the call goes to the transport.
DemoCall(encOk) ==
    /\ Running
    /\ DemoScript[pc].kind = "call"
    /\ flight = NoFlight
    /\ IF encOk
          THEN /\ flight' = Sent(DemoScript[pc].op, DemoScript[pc].arg)
               /\ lastSent' = flight'
               /\ dispatched' = dispatched + 1
               /\ borrows' = borrows + 1
               /\ UNCHANGED phase
          ELSE /\ phase' = "run_failed"
               /\ UNCHANGED <<flight, lastSent, dispatched, borrows>>
    /\ UNCHANGED <<identity, TRACE, panicked, lastSet, pc, trusted, exceptDemo>>

\* Variant: the result of the call is dropped, and the demo goes on.
DemoReturnIgnored(r) ==
    /\ Running
    /\ flight # NoFlight
    /\ flight' = NoFlight
    /\ borrows' = Released(borrows)
    /\ pc' = pc + 1
    /\ lastSent' = AfterLog(flight, r)
    /\ UNCHANGED <<identity, TRACE, panicked, lastSet, phase, trusted, dispatched, exceptDemo>>

\* `.await?`: the next statement on Ok, the Err through every `?` up to main
\* otherwise.
DemoReturn(r) ==
    /\ Running
    /\ flight # NoFlight
    /\ flight' = NoFlight
    /\ borrows' = Released(borrows)
    /\ IF r = "valid" THEN pc' = pc + 1 /\ UNCHANGED phase
                      ELSE phase' = "run_failed" /\ UNCHANGED pc
    /\ lastSent' = AfterLog(flight, r)
    /\ UNCHANGED <<identity, TRACE, panicked, lastSet, trusted, dispatched, exceptDemo>>

\* dfinity_demo returns Ok(()), main waits for ENTER and returns: main.rs 25-29.
DemoEnds(ok) ==
    /\ phase = "demo"
    /\ pc = Len(DemoScript) + 1
    /\ phase' = IF ok THEN "exited" ELSE "panicked"
    /\ UNCHANGED <<invokerVars, pc, flight, trusted, dispatched, lastSent, exceptDemo>>

NextDemo ==
    \/ \E ok \in BOOLEAN : Start(ok)
    \/ \E ok \in BOOLEAN : BuildAgent(ok)
    \/ \E ok \in BOOLEAN : FetchRootKey(ok)
    \/ \E ok \in BOOLEAN : NewService(ok)
    \/ MainPanics
    \/ \E encOk \in BOOLEAN : ScenariosInitCall(encOk)
    \/ \E r \in Replies \cup {"absent"} : ScenariosInitReturn(r)
    \/ \E ok \in BOOLEAN : DemoLocal(ok)
    \/ DemoSetIdentity
    \/ DemoSetTrace
    \/ \E encOk \in BOOLEAN : DemoCall(encOk)
    \/ \E r \in Replies : DemoReturn(r)
    \/ \E ok \in BOOLEAN : DemoEnds(ok)

SpecDemo == Init /\ [][NextDemo]_vars

(* -------- the transcoder: Encode! and Decode! of agent.rs 284-299, 733-740 -------- *)

\* The version byte an envelope starts with.
WireVersion == 1

\* Shapes: the declared types of the facade's arguments and results.
TNat == <<"nat">>
TBool == <<"bool">>
TBytes == <<"bytes">>
TUint(w) == <<"uint", w>>
TOpt(s) == <<"opt", s>>
TVec(s) == <<"vec", s>>
TRec(fs) == <<"rec", fs>>

ShapeNames ==
    {"Nat", "bool", "u16", "Option<Nat>", "Vec<Nat>", "ResponseSupplyId", "CreateSupplyRequest"}

\* agent.rs 9-18 (the Nat aliases and LedgerId), 179-196 (the two records).
ShapeOf(n) ==
    CASE n = "Nat" -> TNat
      [] n = "bool" -> TBool
      [] n = "u16" -> TUint(2)
      [] n = "Option<Nat>" -> TOpt(TNat)
      [] n = "Vec<Nat>" -> TVec(TNat)
      [] n = "ResponseSupplyId" -> TRec(<<TNat, TNat>>)
      [] n = "CreateSupplyRequest" ->
            TRec(<<TOpt(TNat), TNat, TOpt(TBytes), TUint(4), TUint(8), TNat, TBool, TNat, TNat>>)

\* The largest unsigned integer of w bytes.
MaxOf(w) == [i \in 1..w |-> 255]

\* Zero, one and the largest integer that is put on the wire.
NatValues == {<<>>, <<1>>, MaxOf(MaxNatBytes)}

\* CreateSupplyRequest with every field at its default.
DefaultSupplyRequest == <<<<>>, <<>>, <<>>, <<>>, <<>>, <<>>, FALSE, <<>>, <<>>>>

\* The values that are encoded, by shape: numbers as BigUint, an Option as a
\* sequence of at most one element, a Vec as a sequence, a record as the
\* sequence of its fields in declaration order.
Values(n) ==
    CASE n = "Nat" -> NatValues
      [] n = "bool" -> BOOLEAN
      [] n = "u16" -> {<<>>, FromBytesBE(U16ToBeBytes(CLMP_LEDGER_ID)), MaxOf(2)}
      [] n = "Option<Nat>" -> {<<>>} \cup {<<x>> : x \in NatValues}
      [] n = "Vec<Nat>" -> {<<>>} \cup {<<x>> : x \in NatValues}
                                  \cup {<<x, y>> : x \in NatValues, y \in NatValues}
      [] n = "ResponseSupplyId" -> {<<x, y>> : x \in NatValues, y \in NatValues}
      [] n = "CreateSupplyRequest" ->
            {DefaultSupplyRequest}
            \cup {<<c, x, r, MaxOf(4), MaxOf(8), x, b, MaxOf(MaxNatBytes), <<1>>>> :
                    c \in {<<>>, <<MaxOf(MaxNatBytes)>>}, x \in {<<>>, MaxOf(MaxNatBytes)},
                    r \in {<<>>, <<(<<4, 0, 1>>)>>}, b \in BOOLEAN}

RECURSIVE Desc(_), DescAll(_)
\* The type description an envelope carries before the values: what makes
\* the encoding self-describing.
Desc(s) ==
    CASE s[1] = "nat" -> <<1>>
      [] s[1] = "bool" -> <<2>>
      [] s[1] = "bytes" -> <<3>>
      [] s[1] = "uint" -> <<4, s[2]>>
      [] s[1] = "opt" -> <<5>> \o Desc(s[2])
      [] s[1] = "vec" -> <<6>> \o Desc(s[2])
      [] s[1] = "rec" -> <<7, Len(s[2])>> \o DescAll(s[2])
DescAll(fs) == IF Len(fs) = 0 THEN <<>> ELSE Desc(Head(fs)) \o DescAll(Tail(fs))

\* Variant: an arbitrary-precision integer narrowed to its lowest byte.
EncodeNatNarrowed(n) == LET b == ToBytesBE(n) IN <<1, b[Len(b)]>>

\* An arbitrary-precision integer: the number of its bytes, then its bytes,
\* most significant first.
EncodeNat(n) == LET b == ToBytesBE(n) IN <<Len(b)>> \o b

\* A fixed-width integer: w bytes, most significant first.
EncodeUint(w, n) == [i \in 1..(w - Len(n)) |-> 0] \o n

RECURSIVE Body(_, _), BodyEach(_, _), BodyFields(_, _)
\* The values of an envelope, by position: an optional as a presence tag and
\* the payload only when present, a list as its length and its elements, a
\* record as its fields in order.
Body(s, v) ==
    CASE s[1] = "nat" -> EncodeNat(v)
      [] s[1] = "bool" -> <<IF v THEN 1 ELSE 0>>
      [] s[1] = "bytes" -> <<Len(v)>> \o v
      [] s[1] = "uint" -> EncodeUint(s[2], v)
      [] s[1] = "opt" -> IF Len(v) = 0 THEN <<0>> ELSE <<1>> \o Body(s[2], v[1])
      [] s[1] = "vec" -> <<Len(v)>> \o BodyEach(s[2], v)
      [] s[1] = "rec" -> BodyFields(s[2], v)
BodyEach(s, vs) == IF Len(vs) = 0 THEN <<>> ELSE Body(s, Head(vs)) \o BodyEach(s, Tail(vs))
BodyFields(fs, vs) ==
    IF Len(fs) = 0 THEN <<>> ELSE Body(Head(fs), Head(vs)) \o BodyFields(Tail(fs), Tail(vs))

\* encode(shape, value) -> Envelope.
Encode(s, v) == <<WireVersion>> \o Desc(s) \o Body(s, v)

Failed == [ok |-> FALSE, v |-> <<>>, rest |-> <<>>]
Parsed(v, rest) == [ok |-> TRUE, v |-> v, rest |-> rest]
Drop(b, n) == SubSeq(b, n + 1, Len(b))

\* An integer is read only in the one form EncodeNat writes: at least one
\* byte, no leading zero byte but for zero itself.
ParseNat(b) ==
    IF Len(b) < 1 THEN Failed
    ELSE IF b[1] < 1 \/ Len(b) < 1 + b[1] THEN Failed
    ELSE IF b[1] > 1 /\ b[2] = 0 THEN Failed
    ELSE Parsed(FromBytesBE(SubSeq(b, 2, 1 + b[1])), Drop(b, 1 + b[1]))

ParseBool(b) ==
    IF Len(b) < 1 THEN Failed
    ELSE IF b[1] \notin {0, 1} THEN Failed
    ELSE Parsed(b[1] = 1, Drop(b, 1))

ParseBytes(b) ==
    IF Len(b) < 1 THEN Failed
    ELSE IF Len(b) < 1 + b[1] THEN Failed
    ELSE Parsed(SubSeq(b, 2, 1 + b[1]), Drop(b, 1 + b[1]))

ParseUint(w, b) ==
    IF Len(b) < w THEN Failed ELSE Parsed(FromBytesBE(SubSeq(b, 1, w)), Drop(b, w))

RECURSIVE Parse(_, _), ParseEach(_, _, _), ParseFields(_, _)
\* Reads one value of shape s from the front of b; every read is preceded by
\* a check that the bytes are there.
Parse(s, b) ==
    CASE s[1] = "nat" -> ParseNat(b)
      [] s[1] = "bool" -> ParseBool(b)
      [] s[1] = "bytes" -> ParseBytes(b)
      [] s[1] = "uint" -> ParseUint(s[2], b)
      [] s[1] = "opt" ->
            IF Len(b) < 1 THEN Failed
            ELSE IF b[1] = 0 THEN Parsed(<<>>, Drop(b, 1))
            ELSE IF b[1] = 1
                 THEN LET p == Parse(s[2], Drop(b, 1))
                      IN  IF p.ok THEN Parsed(<<p.v>>, p.rest) ELSE Failed
            ELSE Failed
      [] s[1] = "vec" -> IF Len(b) < 1 THEN Failed ELSE ParseEach(s[2], b[1], Drop(b, 1))
      [] s[1] = "rec" -> ParseFields(s[2], b)
ParseEach(s, n, b) ==
    IF n = 0 THEN Parsed(<<>>, b)
    ELSE LET p == Parse(s, b)
         IN  IF ~p.ok THEN Failed
             ELSE LET q == ParseEach(s, n - 1, p.rest)
                  IN  IF q.ok THEN Parsed(<<p.v>> \o q.v, q.rest) ELSE Failed
ParseFields(fs, b) ==
    IF Len(fs) = 0 THEN Parsed(<<>>, b)
    ELSE LET p == Parse(Head(fs), b)
         IN  IF ~p.ok THEN Failed
             ELSE LET q == ParseFields(Tail(fs), p.rest)
                  IN  IF q.ok THEN Parsed(<<p.v>> \o q.v, q.rest) ELSE Failed

\* decode(shape, envelope) -> value or DecodingError: the version and the
\* type description must be those of the shape, the values must parse, and no
\* byte may be left over.
Decode(s, env) ==
    LET d == <<WireVersion>> \o Desc(s)
    IN  IF Len(env) < Len(d) THEN Failed
        ELSE IF SubSeq(env, 1, Len(d)) # d THEN Failed
        ELSE LET p == Parse(s, Drop(env, Len(d)))
             IN  IF p.ok /\ Len(p.rest) = 0 THEN p ELSE Failed

\* Variant: a reply that does not decode is returned as a default value.
DecodeReplyDefaulted(d) == [outcome |-> "ok", value |-> d.v]

\* `let result = Decode!(response.as_slice(), T)?;` ... `Ok(result)`: agent.rs
\* 297-305, 324-332.
DecodeReply(d) ==
    IF d.ok THEN [outcome |-> "ok", value |-> d.v]
            ELSE [outcome |-> "decoding", value |-> <<>>]

\* Encode!(..) of a wrapper, or of the remote side for its reply, once the
\* call before it has returned.
CodecEncode(n, v) ==
    /\ damage = "none" \/ decoded.as # "none"
    /\ shape' = n
    /\ value' = v
    /\ wire' = Encode(ShapeOf(n), v)
    /\ damage' = "intact"
    /\ decoded' = NoDecoded
    /\ UNCHANGED exceptCodec

\* The reply arrives cut short: its first k bytes only.
CodecTruncate(k) ==
    /\ damage = "intact"
    /\ decoded.as = "none"
    /\ k \in 0..(Len(wire) - 1)
    /\ wire' = SubSeq(wire, 1, k)
    /\ damage' = "truncated"
    /\ UNCHANGED <<shape, value, decoded, exceptCodec>>

\* The reply arrives with its byte i changed to b.
CodecCorrupt(i, b) ==
    /\ damage = "intact"
    /\ decoded.as = "none"
    /\ i \in 1..Len(wire)
    /\ wire[i] # b
    /\ wire' = [wire EXCEPT ![i] = b]
    /\ damage' = "corrupted"
    /\ UNCHANGED <<shape, value, decoded, exceptCodec>>

\* Service::query / Service::update decode the reply against the result type
\* m of the wrapper that made the call.
CodecDecode(m) ==
    /\ damage # "none"
    /\ decoded.as = "none"
    /\ LET r == DecodeReply(Decode(ShapeOf(m), wire))
       IN  decoded' = [as |-> m, outcome |-> r.outcome, value |-> r.value]
    /\ UNCHANGED <<shape, value, wire, damage, exceptCodec>>

\* The bytes a changed byte is changed to.
CorruptBytes == {0, 1, 2, 255}

NextCodec ==
    \/ \E n \in ShapeNames : \E v \in Values(n) : CodecEncode(n, v)
    \/ \E k \in 0..Len(wire) : CodecTruncate(k)
    \/ \E i \in 1..Len(wire), b \in CorruptBytes : CodecCorrupt(i, b)
    \/ \E m \in ShapeNames : CodecDecode(m)

SpecCodec == Init /\ [][NextCodec]_vars

(* ======================= properties ======================= *)

Awaiting == {c \in Slots : calls[c].phase = "awaiting"}

\* The first poll of the future in slot c took it to the transport in this step.
Dispatched(c) == calls[c].phase = "created" /\ calls'[c].phase = "awaiting"

\* The call in slot c returned to its caller in this step.
Completed(c) == calls[c].phase \in {"created", "awaiting"} /\ calls'[c].phase = "idle"

\* How often a call was handed to the transport.
Sends(steps) == Cardinality({i \in DOMAIN steps : steps[i] = "send"})

(* C1: once set_identity(B) has returned and until the next set_identity,   *)
(* every call that is dispatched is signed with B: a dispatch step captures *)
(* the argument of the last set_identity that returned (the credential the  *)
(* agent was built with, before the first one).                             *)
C1_SignedWithLastSet ==
    [][\A c \in Slots : Dispatched(c) => calls'[c].cred = lastSet]_vars

\* A call awaits its reply under "exchange" after an earlier call returned
\* under "alice".
C1_Witness ==
    /\ \E c \in Slots : calls[c].phase = "awaiting" /\ calls[c].cred = "exchange"
    /\ returned.cred = "alice"
    /\ lastSet = "exchange"

(* C2: a call that awaits its reply when set_identity is invoked continues   *)
(* with the credential it captured and completes with it: in every step, a   *)
(* call that awaits its reply either still awaits it with the same           *)
(* credential or returns with that credential.                               *)
C2_InFlightCallKeepsCredential ==
    [][\A c \in Slots : calls[c].phase = "awaiting" =>
          \/ calls'[c].phase = "awaiting" /\ calls'[c].cred = calls[c].cred
          \/ calls'[c].phase = "idle" /\ returned'.cred = calls[c].cred]_vars

(* C3: set_identity completes without failure in every reachable state, with *)
(* or without calls in flight, and leaves the given credential current.      *)
C3_SetIdentityNeverFails == panicked = FALSE /\ identity = lastSet

(* C4: a facade call causes at most one send to the transport: exactly one   *)
(* once encoding has succeeded, none when it failed; an agent failure is     *)
(* returned after that one send.                                             *)
C4_NoRetry ==
    /\ \A c \in Slots : /\ Sends(calls[c].steps) <= 1
                        /\ calls[c].phase = "awaiting" => Sends(calls[c].steps) = 1
    /\ returned.outcome = "encoding" => Sends(returned.steps) = 0
    /\ returned.outcome \in {"agent", "decoding", "ok"} => Sends(returned.steps) = 1

\* A call returned the agent's failure after its single send.
C4_Witness ==
    /\ returned.outcome = "agent"
    /\ returned.reply = "error"
    /\ Sends(returned.steps) = 1

(* C5: a call runs encode, send, decode in this order and ends in success or *)
(* failure; it succeeds only when all three steps succeeded, and a failure   *)
(* at a step is returned without any later step having run.                  *)
C5_CallStateMachine ==
    /\ \A c \in Slots : /\ calls[c].phase = "created" => calls[c].steps = <<>>
                        /\ calls[c].phase = "awaiting" =>
                              /\ calls[c].steps = <<"encode", "send">>
                              /\ calls[c].channel = ChannelOf(calls[c].op)
    /\ returned.outcome \in {"none", "ok", "encoding", "agent", "decoding"}
    /\ returned.outcome = "ok" <=>
          returned.reply = "valid" /\ returned.steps = <<"encode", "send", "decode">>
    /\ returned.outcome = "encoding" =>
          returned.reply = "none" /\ returned.steps = <<"encode">>
    /\ returned.outcome = "agent" <=>
          returned.reply = "error" /\ returned.steps = <<"encode", "send">>
    /\ returned.outcome = "decoding" <=>
          returned.reply = "garbled" /\ returned.steps = <<"encode", "send", "decode">>

\* int_transfer_tokens returned an encoding failure with nothing sent.
C5_Witness ==
    /\ returned.op = "int_transfer_tokens"
    /\ returned.outcome = "encoding"
    /\ returned.steps = <<"encode">>

(* C8: a call that fails aborts only itself: the step in which it returns    *)
(* its failure leaves the identity, the trace flag and every other call as   *)
(* they were, and leaves no borrow of the agent behind, so that the client   *)
(* is in the state it would be in had the call never been issued.            *)
C8_FailureIsolation ==
    [][\A c \in Slots : (Completed(c) /\ returned'.outcome # "ok") =>
          /\ identity' = identity
          /\ TRACE' = TRACE
          /\ lastSet' = lastSet
          /\ panicked' = panicked
          /\ \A d \in Slots \ {c} : calls'[d] = calls[d]
          /\ borrows' = Cardinality({d \in Slots \ {c} : calls[d].phase = "awaiting"})]_vars

\* A call failed in decoding while another call awaits its reply, under a
\* swapped identity and with the trace flag off.
C8_Witness ==
    /\ returned.outcome = "decoding"
    /\ Awaiting # {}
    /\ borrows = Cardinality(Awaiting)
    /\ identity = "alice"
    /\ TRACE = FALSE

(* C9: the trace flag is sampled at dispatch: the before-log of a call is    *)
(* governed by the flag as it is when the call is dispatched, a call in      *)
(* flight is not changed by any step but its own return, and the after-log   *)
(* of a call that succeeds is emitted exactly when its before-log was.       *)
C9_TraceSampledAtDispatch ==
    [][\A c \in Slots :
          /\ Dispatched(c) => calls'[c].before = TRACE /\ calls'[c].trace = TRACE
          /\ (calls[c].phase = "awaiting" /\ calls'[c].phase = "awaiting") =>
                calls'[c] = calls[c]
          /\ (calls[c].phase = "awaiting" /\ Completed(c) /\ returned'.outcome = "ok") =>
                returned'.after = calls[c].before]_vars

\* A call logged before and after although the flag was off when it returned.
C9_Witness ==
    /\ returned.outcome = "ok"
    /\ returned.before
    /\ returned.after
    /\ returned.flagAtReturn = FALSE

(* C6: the channel is a static property of the method: two requests of the   *)
(* same wrapper go out on the same channel whatever the identity and the     *)
(* trace flag are, and two requests for the same remote method name go out   *)
(* on the same channel whichever wrappers made them.                         *)
C6_ChannelStatic ==
    (request.op # "none" /\ previous.op # "none") =>
        /\ request.channel \in {"query", "update"}
        /\ previous.op = request.op => previous.channel = request.channel
        /\ previous.name = request.name => previous.channel = request.channel

\* The two wrappers that share a remote method name were called in turn.
C6_Witness ==
    /\ previous.op = "ctr_remove_address"
    /\ request.op = "ctr_remove_address_array"
    /\ request.name = previous.name
    /\ identity # InitialIdentity
    /\ TRACE = FALSE

\* The wrappers of operations that change the remote ledger's state: create,
\* activate, issue, destroy, transfer, set, remove, grant, revoke, pause,
\* unpause, renounce, terminate, update supply, run warp (and change issuer).
MutatingOps == {
    "ctr_remove_address", "ctr_remove_address_array", "ctr_remove_blacklist",
    "ctr_remove_blacklist_array", "ctr_set_blacklist", "ctr_set_blacklist_array",
    "ctr_set_limit", "ctr_set_limit_array", "int_create_supply", "int_run_warp",
    "int_set_contract", "int_set_price", "int_set_supply_controller",
    "int_terminate_supply", "int_transfer_tokens", "int_update_supply_amount",
    "int_update_supply_exchange_rate", "int_update_supply_expiry_date",
    "led_amen_change_issuer", "led_amen_create_amendment", "led_base_activate_asset",
    "led_base_create_asset", "led_base_destroy_tokens", "led_base_issue_tokens",
    "led_kyc_remove_usage_controller", "led_kyc_set_usage_controller",
    "mng_create_clmp", "mng_create_controller", "mng_create_integration",
    "mng_grant_admin", "mng_pause", "mng_renounce_ownership", "mng_revoke_admin",
    "mng_transfer_ownership", "mng_unpause"
}

(* C7: every operation that changes the remote ledger's state is dispatched  *)
(* on the update channel, none of them on the query channel.                 *)
C7_MutatingOnUpdate ==
    request.op \in MutatingOps => request.channel = "update"

(* -------- unsigned integers as byte strings, for C10 -------- *)

RECURSIVE Reverse(_)
Reverse(s) == IF s = <<>> THEN <<>> ELSE Append(Reverse(Tail(s)), Head(s))

RECURSIVE DigitsLE(_)
\* The base-256 digits of the integer n, least significant first.
DigitsLE(n) == IF n = 0 THEN <<>> ELSE <<n % 256>> \o DigitsLE(n \div 256)

RECURSIVE MulAddLE(_, _, _)
\* d * k + carry by long multiplication, on digits least significant first.
MulAddLE(d, k, carry) ==
    IF d = <<>> THEN DigitsLE(carry)
    ELSE LET v == Head(d) * k + carry
         IN  <<v % 256>> \o MulAddLE(Tail(d), k, v \div 256)

RECURSIVE StripLeadingZeros(_)
StripLeadingZeros(s) ==
    IF s # <<>> /\ Head(s) = 0 THEN StripLeadingZeros(Tail(s)) ELSE s

\* a * 2^16 + l for the unsigned integer a given by its big-endian bytes.
Times65536Plus(a, l) ==
    StripLeadingZeros(Reverse(MulAddLE(Reverse(a), 65536, l)))

RECURSIVE Val(_)
\* The integer a short big-endian byte string stands for.
Val(bs) == IF bs = <<>> THEN 0 ELSE Val(SubSeq(bs, 1, Len(bs) - 1)) * 256 + bs[Len(bs)]

\* Ledger identifiers the derivation is evaluated at.
LedgerSamples == {0, 1, 255, 256, 65535}

(* C10: for every asset identifier A, zero and identifiers wider than any    *)
(* machine integer included, and a 16-bit ledger identifier L, the derived   *)
(* identifier is A * 2^16 + L; create_asset returns it for CLMP_LEDGER_ID.   *)
C10_Derivation ==
    /\ created.outcome = "ok" => created.id = Times65536Plus(req, CLMP_LEDGER_ID)
    /\ createPc # "idle" =>
          /\ \A l \in LedgerSamples : UniqueAssetId(req, l) = Times65536Plus(req, l)
          /\ Len(req) <= 1 =>
                \A l \in LedgerSamples : Val(UniqueAssetId(req, l)) = Val(req) * 65536 + l

\* create_asset derived the identifier of an asset identifier of 17 bytes.
C10_Witness ==
    /\ created.outcome = "ok"
    /\ Len(req) > 16
    /\ Len(created.id) = Len(req) + 2

\* Every asset identifier the model draws.
AssetSamples ==
    {FromBytesBE(SampleBytes(n, h, m, t)) :
        n \in 0..MaxAssetBytes, h \in ByteSamples, m \in ByteSamples, t \in ByteSamples}

(* C11: for the fixed ledger identifier, two distinct asset identifiers      *)
(* yield distinct derived identifiers, and create_asset called again with    *)
(* the same request returns the same derived identifier.                     *)
C11_InjectiveDeterministic ==
    /\ (created.outcome = "ok" /\ earlier.outcome = "ok") => created.id = earlier.id
    /\ created.outcome = "ok" =>
          \A a \in AssetSamples :
              a # req => UniqueAssetId(a, CLMP_LEDGER_ID) # created.id

\* create_asset derived the identifier of a 17-byte asset identifier twice.
C11_Witness ==
    /\ created.outcome = "ok"
    /\ earlier.outcome = "ok"
    /\ Len(req) > 16
    /\ Cardinality(AssetSamples) > 1

(* C12: ctr_remove_address and ctr_remove_address_array dispatch the same    *)
(* remote method name, ctr_remove_blacklist_array dispatches another name    *)
(* than ctr_remove_blacklist, and no other two wrappers share a name.        *)
C12_SharedMethodNames ==
    /\ request.op = "ctr_remove_address_array" => request.name = "ctr_remove_address"
    /\ request.op = "ctr_remove_address" => request.name = "ctr_remove_address"
    /\ (request.op = "ctr_remove_blacklist_array" /\ previous.op = "ctr_remove_blacklist")
          => request.name # previous.name
    /\ (request.op # "none" /\ previous.op # "none" /\ request.op # previous.op
          /\ request.name = previous.name)
          => {request.op, previous.op} = {"ctr_remove_address", "ctr_remove_address_array"}

\* The blacklist removal wrappers were called in turn, under different names.
C12_Witness ==
    /\ previous.op = "ctr_remove_blacklist"
    /\ request.op = "ctr_remove_blacklist_array"
    /\ previous.name = "ctr_remove_blacklist"
    /\ request.name = "ctr_remove_blacklist_array"

\* The wrapper stem of each event kind: event_<stem>_count, event_<stem>_get.
EventStem(k) ==
    CASE k = "AssetUpdate" -> "asset_update"
      [] k = "AdministratorChanged" -> "administrator_changed"
      [] k = "AmendmentUpdate" -> "amendment_update"
      [] k = "SupplyUpdate" -> "supply_update"
      [] k = "PauseChanged" -> "pause_changed"
      [] k = "LedgerAdded" -> "ledger_added"
      [] k = "LimitChanged" -> "limit_changed"
      [] k = "TokensCreated" -> "tokens_created"
      [] k = "ControllerCreated" -> "controller_created"
      [] k = "LimitConsumed" -> "limit_consumed"
      [] k = "TokensDestroyed" -> "tokens_destroyed"
      [] k = "PricingChanged" -> "pricing_changed"
      [] k = "AccountUpdate" -> "account_update"
      [] k = "OwnershipTransferred" -> "ownership_transferred"
      [] k = "BlacklistChanged" -> "blacklist_changed"

CountOp(k) == "event_" \o EventStem(k) \o "_count"

GetOp(k) == "event_" \o EventStem(k) \o "_get"

EventOps == {CountOp(k) : k \in EventType} \cup {GetOp(k) : k \in EventType}

(* C14: each of the 15 event kinds has a count and a get operation, both on  *)
(* the query channel; get encodes the scope argument of its count (none, a   *)
(* contract identifier or a ledger identifier) followed by an index; count   *)
(* returns a total and get an optional event of the kind.                    *)
C14_EventCatalogComplete ==
    /\ Cardinality(EventType) = 15
    /\ \A k \in EventType :
          /\ CountOp(k) \in Wrappers
          /\ GetOp(k) \in Wrappers
          /\ ChannelOf(CountOp(k)) = "query"
          /\ ChannelOf(GetOp(k)) = "query"
          /\ ArgTypes(CountOp(k)) \in {<<>>, <<"ContractId">>, <<"LedgerId">>}
          /\ ArgTypes(GetOp(k)) = ArgTypes(CountOp(k)) \o <<"u64">>
          /\ ResultType(CountOp(k)) = "u64"
          /\ ResultType(GetOp(k)) = "Option<" \o k \o ">"
    /\ {w \in Wrappers : SubSeq(w, 1, 6) = "event_"} = EventOps
    /\ request.op \in EventOps => request.channel = "query"

\* A scoped count and its get were dispatched in turn.
C14_Witness ==
    /\ previous.op = "event_administrator_changed_count"
    /\ request.op = "event_administrator_changed_get"
    /\ request.channel = "query"

(* C13: when the count query of an event kind and scope has returned N and no *)
(* update call came in between, a get query on that kind and scope whose      *)
(* reply is delivered returns success: with the present event of that index   *)
(* for every zero-based index below N, and with an absent value, which is a   *)
(* success and not a failure, for every index from N on.                      *)
C13_PaginationBoundary ==
    (got.reply = "valid" /\ counted.outcome = "ok" /\ got.key = counted.key) =>
        /\ got.outcome = "ok"
        /\ got.index < counted.total =>
              /\ Len(got.event) = 1
              /\ got.event[1] = [kind |-> got.key.kind, scope |-> got.key.scope, ix |-> got.index]
        /\ got.index >= counted.total => got.event = <<>>

C13_Witness ==
    /\ counted.outcome = "ok"
    /\ counted.total = MaxEvents
    /\ got.key = counted.key
    /\ got.index = counted.total
    /\ got.outcome = "ok"
    /\ got.event = <<>>

C13_WitnessPresent ==
    /\ counted.outcome = "ok"
    /\ got.key = counted.key
    /\ got.index = counted.total - 1
    /\ got.outcome = "ok"
    /\ Len(got.event) = 1

(* C15: the trust root is established before any call goes out: whenever a    *)
(* call has been dispatched, fetch_root_key had returned Ok before, and when  *)
(* building the agent, fetching the root key or making the Service failed,    *)
(* no call has been dispatched and main panics without dispatching any.       *)
C15_TrustBeforeDispatch ==
    /\ dispatched > 0 => trusted
    /\ flight # NoFlight => trusted
    /\ phase \in {"init_failed", "panicked_init"} => dispatched = 0 /\ flight = NoFlight
    /\ phase \in {"start", "build", "fetch_root_key", "from_text"} => dispatched = 0

C15_Witness ==
    /\ trusted
    /\ dispatched = 1
    /\ flight.op = "int_get_ledger_contract_id"
    /\ phase = "scenarios_init"

\* print_balances is executing: its next statement is one of its own.
InPrintBalances == Running /\ DemoScript[pc].fn = "print_balances"

(* C19: the trace flag is enabled in every state in which print_balances is   *)
(* not executing, so that print_balances, which disables it on entry, has     *)
(* enabled it again whenever it has returned, with Ok or with the Err of one  *)
(* of its balance queries.                                                    *)
C19_TraceEnabledOutsidePrintBalances == InPrintBalances \/ TRACE = TRUE

\* The actor the demo means to act as, by call and subject.
IntendedActor ==
    [c \in {<<"led_base_activate_asset", "RE">>, <<"led_base_issue_tokens", "RE">>,
            <<"int_transfer_tokens", "RE">>, <<"int_create_supply", "RE=>USD">>} |-> "alice"]
    @@ [c \in {<<"led_base_activate_asset", "USD">>, <<"led_base_activate_asset", "BTC">>,
               <<"led_base_issue_tokens", "USD">>, <<"led_base_issue_tokens", "BTC">>,
               <<"int_transfer_tokens", "BTC">>, <<"int_create_supply", "USD=>BTC">>} |-> "exchange"]
    @@ [c \in {<<"int_run_warp", "warp">>} |-> "charlie"]

(* C20: in dfinity_demo no set_identity runs while a call is in flight: when   *)
(* the next statement is a set_identity, no call is awaited and the agent is   *)
(* not borrowed, and set_identity never panics; and every state-mutating call  *)
(* goes out under the identity of its intended actor: Alice for the Real       *)
(* Estate activation, issue, transfer and RE=>USD supply, the Exchange for the *)
(* USD and BTC activations and issues, the BTC transfer and the USD=>BTC       *)
(* supply, Charlie for the warp.                                               *)
C20_DemoIdentityDiscipline ==
    /\ ~panicked
    /\ (Running /\ DemoScript[pc].kind = "set_identity") => (flight = NoFlight /\ borrows = 0)
    /\ (phase \in {"demo", "run_failed", "panicked_run", "exited"}
            /\ lastSent.op \in MutatingOps) =>
          /\ <<lastSent.op, lastSent.subject>> \in DOMAIN IntendedActor
          /\ lastSent.cred = IntendedActor[<<lastSent.op, lastSent.subject>>]
    /\ phase = "exited" =>
          /\ flight = NoFlight
          /\ dispatched = 1 + Cardinality({i \in DOMAIN DemoScript : DemoScript[i].kind = "call"})

C20_Witness ==
    /\ phase = "exited"
    /\ lastSent.op = "int_get_balance"
    /\ identity = "charlie"
    /\ dispatched = 49

(* C18: calls may be in flight together, and none blocks or fails because of  *)
(* another: with the identity and the trace flag as they are, a call that is  *)
(* dispatched while others await their replies goes to the transport as it    *)
(* would alone, a call that returns while others are in flight returns what   *)
(* its own reply alone determines, neither step panics nor touches another    *)
(* call, and while the thread has not panicked every created call can be      *)
(* dispatched and every awaited reply taken, whatever the other calls do.     *)
C18_ConcurrentIndependence ==
    /\ [](~panicked =>
            \A c \in Slots :
                /\ calls[c].phase = "created" =>
                      \A encOk \in BOOLEAN : ENABLED Dispatch(c, encOk)
                /\ calls[c].phase = "awaiting" =>
                      \A r \in Replies : ENABLED Reply(c, r))
    /\ [][\A c \in Slots :
            /\ Dispatched(c) =>
                  /\ ~panicked'
                  /\ \A d \in Slots \ {c} : calls'[d] = calls[d]
                  /\ calls'[c].cred = identity
                  /\ calls'[c].trace = TRACE
                  /\ calls'[c].channel = ChannelOf(calls[c].op)
                  /\ borrows' = borrows + 1
            /\ (calls[c].phase = "created" /\ calls'[c].phase = "idle") =>
                  /\ ~panicked'
                  /\ \A d \in Slots \ {c} : calls'[d] = calls[d]
                  /\ returned'.outcome = "encoding"
            /\ (calls[c].phase = "awaiting" /\ calls'[c].phase = "idle") =>
                  /\ ~panicked'
                  /\ \A d \in Slots \ {c} : calls'[d] = calls[d]
                  /\ returned'.op = calls[c].op
                  /\ returned'.cred = calls[c].cred
                  /\ returned'.outcome = QueryOutcome(returned'.reply)
                  /\ returned'.after = (returned'.reply = "valid" /\ calls[c].trace)
                  /\ Sends(returned'.steps) = 1]_vars

\* Every call slot awaits its reply, each holding its borrow of the agent.
C18_Witness ==
    /\ ~panicked
    /\ Cardinality(Awaiting) = MaxCalls
    /\ MaxCalls >= 2
    /\ borrows = MaxCalls
    /\ returned.outcome = "ok"

C21_BalanceBatchSilent ==
    /\ Cardinality({i \in DOMAIN PrintBalances : PrintBalances[i].op = "int_get_balance"}) = 12
    /\ \A i \in DOMAIN DemoScript :
          DemoScript[i].op = "int_get_balance" => DemoScript[i].fn = "print_balances"
    /\ lastSent.op = "int_get_balance" => (~lastSent.before /\ ~lastSent.after)
    /\ flight.op = "int_get_balance" => ~flight.before
    /\ lastSent.op \notin {"none", "int_get_balance"} => lastSent.before
    /\ (Running /\ flight = NoFlight /\ pc > 1 /\ lastSent.op \notin {"none", "int_get_balance"}
            /\ DemoScript[pc - 1].kind = "call") => lastSent.after

\* The transfer after the first print_balances has returned and was logged.
C21_Witness ==
    /\ Running
    /\ flight = NoFlight
    /\ lastSent.op = "int_transfer_tokens"
    /\ lastSent.subject = "RE"
    /\ lastSent.before
    /\ lastSent.after
    /\ DemoScript[pc - 2].line = 141
    /\ DemoScript[pc - 3].line = 139
    /\ DemoScript[pc - 4] = SetTraceStmt("true", 344)

(* C22: create_asset returns a derived identifier only after its              *)
(* led_base_activate_asset call, an update call, has succeeded; when the call *)
(* fails it returns the failure and no identifier; and it dispatches that one *)
(* call and no other: none when encoding failed, none for the derivation.     *)
C22_DerivedAfterActivation ==
    /\ created.outcome = "ok" =>
          /\ created.reply = "valid"
          /\ created.calls = <<[op |-> "led_base_activate_asset", channel |-> "update"]>>
          /\ created.id = UniqueAssetId(req, CLMP_LEDGER_ID)
    /\ created.outcome # "ok" => created.id = NotCreated.id
    /\ created.reply \in {"error", "garbled"} => created.outcome \in {"agent", "decoding"}
    /\ createPc = "awaiting" => (created.outcome = "none" /\ Len(created.calls) = 1)
    /\ createPc = "returned" =>
          Len(created.calls) = IF created.outcome = "encoding" THEN 0 ELSE 1

\* The activation failed in transit and create_asset returned the failure.
C22_Witness ==
    /\ createPc = "returned"
    /\ created.outcome = "agent"
    /\ created.reply = "error"
    /\ created.id = <<>>
    /\ Len(created.calls) = 1
    /\ earlier.outcome = "ok"

(* C23, as stated: the after-log of a call is emitted only if the trace flag   *)
(* was enabled at its dispatch, its before-log was emitted and the call        *)
(* succeeded through decoding; a call that fails in transport or decoding      *)
(* emits its before-log but never an after-log.                                *)
C23_LogPairingAsStated ==
    /\ returned.after =>
          (returned.trace /\ returned.before /\ returned.outcome = "ok")
    /\ returned.outcome \in {"agent", "decoding"} => (returned.before /\ ~returned.after)

(* C23, amended: the after-log of a call is emitted only if the trace flag was *)
(* enabled at its dispatch, its before-log was emitted and the call succeeded  *)
(* through decoding; a call that fails in transport or decoding emits its      *)
(* before-log exactly when the flag was enabled at its dispatch, and never an  *)
(* after-log.                                                                  *)
C23_LogPairing ==
    /\ returned.after =>
          /\ returned.trace /\ returned.before /\ returned.outcome = "ok"
          /\ returned.steps = <<"encode", "send", "decode">>
    /\ returned.outcome \in {"agent", "decoding"} =>
          /\ returned.before = returned.trace
          /\ ~returned.after
    /\ \A c \in Awaiting : calls[c].before = calls[c].trace

\* A call dispatched with the flag on failed in decoding: a before-log with
\* no after-log.
C23_Witness ==
    /\ returned.outcome = "decoding"
    /\ returned.trace
    /\ returned.before
    /\ ~returned.after
    /\ returned.flagAtReturn

(* C24: the demo stops at the first failure: once a remote call of            *)
(* dfinity_demo, create_asset, print_balances or run_warp has failed, run has *)
(* returned that failure to main, no call is in flight, and no step           *)
(* dispatches another call or swaps the identity: main panics.                *)
C24_StopsAtFirstFailure ==
    /\ []((lastSent.reply \in {"error", "garbled"} /\ lastSent.op # "int_get_ledger_contract_id") =>
             phase \in {"run_failed", "panicked_run"})
    /\ [](phase \in {"run_failed", "panicked_run"} => (flight = NoFlight /\ borrows = 0))
    /\ [][(phase \in {"run_failed", "panicked_run"}) =>
             (/\ phase' = "panicked_run"
              /\ dispatched' = dispatched
              /\ lastSent' = lastSent
              /\ identity' = identity
              /\ lastSet' = lastSet
              /\ pc' = pc)]_vars

\* The warp failed in run_warp; main has panicked with work left undone.
C24_Witness ==
    /\ phase = "panicked_run"
    /\ lastSent.op = "int_run_warp"
    /\ lastSent.reply = "error"
    /\ pc < Len(DemoScript)
    /\ DemoScript[pc].fn = "run_warp"

(* C25: no update call is dispatched before the first set_identity: the only  *)
(* call that goes out under the identity the agent was built with is the      *)
(* int_get_ledger_contract_id query of Scenarios::init, and when an update    *)
(* call is dispatched, a set_identity statement of the demo has completed     *)
(* before it and the call is signed with a credential that was set.           *)
C25_NoUpdateBeforeSetIdentity ==
    /\ lastSent.cred = InitialIdentity =>
          (lastSent.op = "int_get_ledger_contract_id" /\ lastSent.channel = "query")
    /\ lastSent.channel = "update" =>
          (lastSent.cred # InitialIdentity /\ lastSet # InitialIdentity)
    /\ flight.channel = "update" =>
          /\ Running
          /\ \E i \in 1..(pc - 1) : DemoScript[i].kind = "set_identity"
          /\ flight.cred = lastSet
    /\ (phase = "scenarios_init" /\ flight # NoFlight) =>
          (flight.cred = InitialIdentity /\ flight.channel = "query" /\ dispatched = 1)

\* The first update call of the program, in flight under alice.
C25_Witness ==
    /\ flight.op = "led_base_activate_asset"
    /\ flight.channel = "update"
    /\ flight.cred = "alice"
    /\ dispatched = 2
    /\ pc = 3

\* The result type t is a record with a field tx_id.
HasTxId(t) == \E i \in DOMAIN FieldsOf(t) : FieldsOf(t)[i] = "tx_id"

(* C26: the result shape matches the channel across the whole catalog: every  *)
(* operation dispatched on the update channel returns a record with a tx_id,  *)
(* one of Response, ResponseSupplyId, ResponseAmendmentId, ResponseContractId, *)
(* and no operation dispatched on the query channel returns such a record.     *)
C26_ResultShapeMatchesChannel ==
    /\ \A w \in Wrappers :
          /\ ChannelOf(w) = "update" =>
                /\ HasTxId(ResultType(w))
                /\ ResultType(w) \in {"Response", "ResponseSupplyId", "ResponseAmendmentId",
                                      "ResponseContractId"}
          /\ ChannelOf(w) = "query" => ~HasTxId(ResultType(w))
    /\ request.op # "none" =>
          (request.channel = "update" <=> HasTxId(ResultType(request.op)))

\* get_tx, whose result is an optional Transaction, went out on query after
\* an update call that returns a ResponseSupplyId.
C26_Witness ==
    /\ previous.op = "int_create_supply"
    /\ previous.channel = "update"
    /\ HasTxId(ResultType(previous.op))
    /\ request.op = "get_tx"
    /\ request.channel = "query"
    /\ ~HasTxId(ResultType(request.op))

====
